---- MODULE Spec2Model ----
(***************************************************************************)
(* A model of the PDF generation workflow: WorkflowOrchestrator            *)
(* (workflow.py) driving HTMLGenerator (htmlGenerator.py), PDFConverter    *)
(* (htmlToPdf.py), SupabaseUploader (supabaseUploader.py), ErrorLogger     *)
(* (errorLogger.py), and the HTTP endpoint generate_pdf (main.py).         *)
(*                                                                         *)
(* A run is a coroutine.  Every action below is one synchronous segment or *)
(* one awaited browser call of that coroutine; a coroutine can be          *)
(* preempted only while it is suspended in an awaited call (Parked).       *)
(***************************************************************************)
EXTENDS Integers, Sequences, FiniteSets, TLC

\* ------------------------------------------------------------------ bounds
\* Runs one orchestrator instance executes one after the other.
MaxRuns == 2
\* Install attempts of the renderer the model follows within one run.
MaxInstalls == 2

\* ------------------------------------------------------- program constants
Orchestrators == {"o1", "o2"}

DefaultTemplateList ==
    <<"coverpage.html", "page1.html", "page2.html", "page3.html", "endingpage.html">>

\* files_to_delete of PDFConverter.cleanup_html_files
CleanupList == <<"coverpage.html", "page1.html", "page2.html", "page3.html">>

ClosingPage == "endingpage.html"

\* template_list = None
NoneList == <<"None">>

\* The caller-supplied lists the model tries (examples.py and two more).
CustomLists ==
    { <<"coverpage.html", "page1.html", "page2.html">>,
      <<"extra.html", "endingpage.html">> }

TemplateInputs == {NoneList} \cup CustomLists

Templates == {"coverpage.html", "page1.html", "page2.html", "page3.html",
              "endingpage.html", "extra.html"}

\* Input data files: two parseable offers, a parseable record whose
\* OfferLanguage is null, a file that is not valid JSON, and a path at which no
\* file exists.
Offers == {"offerA", "offerB"}
DataInputs == Offers \cup {"nulltag", "corrupt", "missing"}

\* Parseable records that differ in client.company only: a usual name, the
\* empty string, and a name without any character a filename keeps.
NameInputs == {"offerB", "blank", "symbols"}

\* A key that the record does not have, and the JSON value null.
Absent == <<"absent">>
Null == <<"null">>

\* OfferLanguage of each parseable record, one character per element.
OfferLanguage(d) ==
    IF d = "offerA" THEN <<" ", "P", "O", "L", "i", "s", "h", " ">>
    ELSE IF d \in {"offerB", "blank", "symbols"} THEN Absent
    ELSE Null

\* client.company of each offer, one character per element ("TM" is the
\* trade mark sign, one character).
Company(d) ==
    IF d = "offerA" THEN <<"A", "c", "m", "e", "TM", " ", "C", "o", "!", "!">>
    ELSE IF d = "blank" THEN <<>>
    ELSE IF d = "symbols" THEN <<"!", "TM", "!">>
    ELSE <<"C", "-", "D", "_", "2">>

\* The characters of the model for which str.isalnum() is true.
Alnum == {"A", "C", "D", "c", "m", "e", "o", "f", "r", "2"}

DefaultFolder == "finalPdf"
PdfFolders == {"finalPdf", "customPdf"}
BucketName == "offers"

Range(s) == {s[i] : i \in DOMAIN s}

\* ------------------------------------------------------- pure functions
Whitespace == {" ", "\t", "\n"}

\* str.strip()
Strip(str) ==
    LET keep == {i \in DOMAIN str : str[i] \notin Whitespace}
    IN  IF keep = {} THEN <<>>
        ELSE SubSeq(str, CHOOSE i \in keep : \A j \in keep : i <= j,
                         CHOOSE i \in keep : \A j \in keep : j <= i)

\* str.lower(), on the letters the model uses
LowerChar(c) ==
    CASE c = "P" -> "p" [] c = "O" -> "o" [] c = "L" -> "l" [] c = "I" -> "i"
      [] c = "S" -> "s" [] c = "H" -> "h" [] c = "E" -> "e" [] c = "N" -> "n"
      [] c = "G" -> "g" [] OTHER -> c

Lower(str) == [i \in DOMAIN str |-> LowerChar(str[i])]

\* A call that ends with an exception instead of a value.
Raises == "raises"

\* templates_folder = None: the caller names no templates folder.
NoFolder == "None"

\* The templates folders a caller names (examples.py, example_2).
TemplatesFolders == {"templates"}

\* The folders load_data chooses from the language tag.
LanguageFolders == {"templates-English", "templates-Polish"}

\* HTMLGenerator.load_data after the record is parsed: the folder the caller
\* named, if any; otherwise the folder chosen from
\* data.get('OfferLanguage', 'English').strip(); None has no strip.
ResolveTemplatesFolder(templates_folder_override, tag) ==
    IF templates_folder_override # NoFolder THEN templates_folder_override
    ELSE IF tag = Null THEN Raises
    ELSE LET offer_language == Strip(IF tag = Absent
                                     THEN <<"E", "n", "g", "l", "i", "s", "h">>
                                     ELSE tag)
         IN  IF Lower(offer_language) = <<"p", "o", "l", "i", "s", "h">>
             THEN "templates-Polish"
             ELSE IF Lower(offer_language) = <<"e", "n", "g", "l", "i", "s", "h">>
             THEN "templates-English"
             ELSE "templates-English"

\* Mutant: characters that are not allowed are dropped.
SanitizeStripping(name) ==
    SelectSeq(name, LAMBDA c : c \in Alnum \/ c \in {" ", "-", "_"})

\* PDFConverter.load_data: the sanitized client name plus ".pdf"
IsAllowed(c) == c \in Alnum \/ c \in {" ", "-", "_"}

Sanitize(name) == [i \in DOMAIN name |-> IF IsAllowed(name[i]) THEN name[i] ELSE "_"]

PdfFilename(d) == Sanitize(Company(d)) \o <<".pdf">>

\* PDFConverter.__init__: self.pdf_filename = "offer.pdf"
InitialPdfFilename == <<"o", "f", "f", "e", "r", ".pdf">>

PdfNames == {PdfFilename(d) : d \in Offers \cup NameInputs} \cup {InitialPdfFilename}
PdfPaths == PdfFolders \X PdfNames

\* Locations run can return: None, a local path, a public URL; and the two
\* ways a call can end without a value.
Loc(kind, where, name) == [kind |-> kind, where |-> where, name |-> name]
None == Loc("None", "", <<>>)
Pending == Loc("pending", "", <<>>)
Raised == Loc("raised", "", <<>>)
LocalPath(p) == Loc("path", p[1], p[2])
PublicUrl(bucket_name, key) == Loc("url", bucket_name, key)

\* A missing file, and the content of a PDF: the run that printed it
\* (orchestrator, number of its run).  The pages the run printed are
\* hist.pagesRead.
NoFile == <<"", 0>>
IsFile(c) == c # NoFile

\* The sets of templates whose rendering raises that the model tries: none,
\* one in the middle, the first and the closing page, all of them.
BrokenSets ==
    { {}, {"page1.html"}, {"coverpage.html", "endingpage.html"},
      {"coverpage.html", "page1.html", "page2.html", "page3.html",
       "endingpage.html", "extra.html"} }

VARIABLES
    env,        \* the process environment of the Supabase modules
    cfg,        \* constructor arguments of each orchestrator
    orch,       \* the mutable fields of each orchestrator and its components
    pc,         \* where each orchestrator's run coroutine stands
    runsLeft,   \* runs each orchestrator may still start
    html,       \* the HTML output folder: template name -> offer ("" = no file)
    pdf,        \* the PDF folders: <<folder, name>> -> content
    bucket,     \* the storage bucket: key -> content
    folders,    \* the templates folders that exist
    datafiles,  \* the temporary data files of the HTTP endpoint that exist
    hist        \* what the current run of each orchestrator has done so far

vars == <<env, cfg, orch, pc, runsLeft, html, pdf, bucket, folders, datafiles, hist>>

\* The awaited calls at which a run can stand: the browser calls of
\* convert_html_to_pdf and the __aexit__ of async_playwright.
AwaitPoints == {"launch", "goto", "print", "close", "aexit"}

\* The event loop runs one coroutine at a time: o moves only while every other
\* coroutine is suspended in an awaited call or is not running.
Parked(o) ==
    \A p \in Orchestrators \ {o} :
        pc[p] \in AwaitPoints \cup {"idle", "scheduled", "done", "responded"}

\* workflow.py: SUPABASE_AVAILABLE, ERROR_LOGGER_AVAILABLE (both modules import
\* the supabase and dotenv packages).
SUPABASE_AVAILABLE == env # "no_module"
ERROR_LOGGER_AVAILABLE == env # "no_module"

Configs ==
    [templates_folder : {NoFolder} \cup TemplatesFolders,
     cleanup_html : BOOLEAN, upload_to_supabase : BOOLEAN,
     delete_local_after_upload : BOOLEAN, pdf_output_folder : PdfFolders]

\* WorkflowOrchestrator() as main.py constructs it.
DefaultConfig ==
    [templates_folder |-> NoFolder, cleanup_html |-> TRUE, upload_to_supabase |-> TRUE,
     delete_local_after_upload |-> TRUE, pdf_output_folder |-> DefaultFolder]

\* WorkflowOrchestrator.__init__
NewOrchestrator(c) ==
    [data_file_path |-> "missing",
     upload_to_supabase |-> c.upload_to_supabase,
     supabase_uploader |-> FALSE,
     error_logger |-> "None",
     generated_html_files |-> <<>>,
     generated_pdf_path |-> None,
     supabase_url |-> None,
     pdf_filename |-> InitialPdfFilename]

NewHist ==
    [run |-> 0,
     template_list |-> NoneList,
     events |-> <<>>,
     templates_folder |-> "",
     rendered |-> <<>>,
     failed |-> {},
     rasterInput |-> <<>>,
     pagesRead |-> <<>>,
     document |-> <<>>,
     prints |-> 0,
     written |-> {},
     tmp |-> "none",
     raising |-> FALSE,
     installs |-> 0,
     storeCalls |-> 0,
     upload_result |-> [called |-> FALSE],
     uploadOK |-> FALSE,
     unlinkFailed |-> FALSE,
     htmlDeleted |-> {},
     htmlStuck |-> {},
     errors |-> <<>>,
     log_returns |-> <<>>,
     result |-> Pending,
     temp_data |-> <<>>,
     response |-> [status_code |-> 0, pdf_path |-> None]]

\* The stage events of a run, <<stage, "start">> and <<stage, how it ended>>,
\* in the order run goes through them.
Ev(h, e) == [h EXCEPT !.events = Append(@, e)]

\* ------------------------------------------------------------ ErrorLogger
\* Mutant: an insert that fails is repeated, as a second record.
log_error_retry(h, logger, error_name, node, insertOk) ==
    IF logger # "enabled"
    THEN h
    ELSE LET rec == [error_name |-> error_name, last_node_executed |-> node,
                     inserted |-> insertOk]
         IN  [h EXCEPT !.errors = IF insertOk THEN Append(@, rec)
                                  ELSE Append(Append(@, rec), rec)]

\* Mutant: log_error reports success whether or not the insert went through.
log_error_optimistic(h, logger, error_name, node, insertOk) ==
    IF logger = "None"
    THEN h
    ELSE IF logger # "enabled"
    THEN [h EXCEPT !.log_returns = Append(@, FALSE)]
    ELSE [h EXCEPT !.errors = Append(@, [error_name |-> error_name,
                                          last_node_executed |-> node,
                                          inserted |-> insertOk]),
                   !.log_returns = Append(@, TRUE)]

\* ErrorLogger.log_error as the orchestrator calls it: "if self.error_logger:"
\* skips the call when there is no logger object.  A disabled logger returns
\* False at once; an enabled one builds the record and hands it to the table,
\* returning True, or False when the insert raised (insertOk: whether the
\* insert went through).  log_returns: what the calls of the run returned.
log_error(h, logger, error_name, node, insertOk) ==
    IF logger = "None"
    THEN h
    ELSE IF logger # "enabled"
    THEN [h EXCEPT !.log_returns = Append(@, FALSE)]
    ELSE [h EXCEPT !.errors = Append(@, [error_name |-> error_name,
                                          last_node_executed |-> node,
                                          inserted |-> insertOk]),
                   !.log_returns = Append(@, IF insertOk THEN TRUE ELSE FALSE)]

\* ------------------------------------------------------------ components
InitRaises(s) ==
    s.upload_to_supabase /\ SUPABASE_AVAILABLE /\ env = "bad_creds"

\* WorkflowOrchestrator.initialize_components (when it does not raise)
initialize_components(s) ==
    [s EXCEPT
       !.pdf_filename = InitialPdfFilename,
       !.supabase_uploader =
           IF s.upload_to_supabase /\ SUPABASE_AVAILABLE /\ env = "ok" THEN TRUE ELSE @,
       !.upload_to_supabase =
           IF s.upload_to_supabase /\ (~SUPABASE_AVAILABLE \/ env = "no_creds")
           THEN FALSE ELSE @,
       !.error_logger =
           IF ERROR_LOGGER_AVAILABLE
           THEN (IF env = "ok" THEN "enabled" ELSE "disabled")
           ELSE @]

\* The run ends: run returns loc to its caller (or raises).
Return(o, h, loc) ==
    /\ pc' = [pc EXCEPT ![o] = "done"]
    /\ hist' = [hist EXCEPT ![o] = [h EXCEPT !.result = loc]]

\* ------------------------------------------------------------------ run
\* WorkflowOrchestrator.run_with_custom_data up to run's validation: the data
\* file is set and the components are initialized, which may raise (h: the
\* record of the run that begins).
run_with_custom_data(o, d, h) ==
    LET s == [orch[o] EXCEPT !.data_file_path = d]
    IN  IF InitRaises(s)
        THEN /\ orch' = [orch EXCEPT ![o] = s]
             /\ Return(o, h, Raised)
        ELSE /\ orch' = [orch EXCEPT ![o] = initialize_components(s)]
             /\ pc' = [pc EXCEPT ![o] = "validate"]
             /\ hist' = [hist EXCEPT ![o] = h]

\* A caller starts a run: run_with_custom_data(d, tl) sets the data file and
\* initializes the components, then calls run(tl).  The callers are those of
\* the repository: a caller-supplied template list goes to a fresh orchestrator
\* that is used once (examples.py, example_3); an orchestrator that is used
\* again gets the default list every time (example_7).
StartRun(o, d, tl) ==
    /\ pc[o] \in {"idle", "done"}
    /\ runsLeft[o] > 0
    /\ Parked(o)
    /\ tl # NoneList => (pc[o] = "idle" /\ runsLeft[o] = 1)
    /\ runsLeft' = [runsLeft EXCEPT ![o] = @ - 1]
    /\ run_with_custom_data(o, d, [NewHist EXCEPT !.run = hist[o].run + 1,
                                                  !.template_list = tl])
    /\ UNCHANGED <<folders, datafiles, env, cfg, html, pdf, bucket>>

\* A caller constructs WorkflowOrchestrator(data_file_path = d, ...) and calls
\* run(tl) on it directly (examples.py, examples 1, 2, 3 and 6): the components
\* are initialized by run itself, after validation.
StartDirect(o, d, tl) ==
    /\ pc[o] = "idle"
    /\ runsLeft[o] > 0
    /\ Parked(o)
    /\ runsLeft' = [runsLeft EXCEPT ![o] = 0]
    /\ orch' = [orch EXCEPT ![o].data_file_path = d]
    /\ pc' = [pc EXCEPT ![o] = "validate"]
    /\ hist' = [hist EXCEPT ![o] = [NewHist EXCEPT !.run = hist[o].run + 1,
                                                   !.template_list = tl]]
    /\ UNCHANGED <<folders, datafiles, env, cfg, html, pdf, bucket>>

\* Mutant: validate_input does not look at the data file.
InputExistsAlways(d) == TRUE

\* validate_input: self.data_file_path.exists()
InputExists(d) == d # "missing"

\* The data file of o's run: the temporary data file of the request when the
\* run serves one, which exists until a request removes it.
DataFileExists(o) ==
    IF hist[o].temp_data # <<>>
    THEN hist[o].temp_data \in datafiles
    ELSE InputExists(orch[o].data_file_path)

\* validate_input: "if self.templates_folder and not
\* self.templates_folder.exists()"; template files missing from a folder that
\* exists are only warned about.
TemplatesFolderMissing(templates_folder) ==
    templates_folder # NoFolder /\ templates_folder \notin folders

\* WorkflowOrchestrator.validate_input and run's early return
Validate(o) ==
    /\ pc[o] = "validate"
    /\ Parked(o)
    /\ LET h == Ev(hist[o], <<"validate", "start">>)
       IN  IF ~DataFileExists(o)
           THEN Return(o, Ev(h, <<"validate", "fail">>), None)
           ELSE IF TemplatesFolderMissing(cfg[o].templates_folder)
           THEN Return(o, Ev(h, <<"validate", "fail">>), None)
           ELSE /\ pc' = [pc EXCEPT ![o] = "init"]
                /\ hist' = [hist EXCEPT ![o] = Ev(h, <<"validate", "ok">>)]
    /\ UNCHANGED <<folders, datafiles, env, cfg, orch, runsLeft, html, pdf, bucket>>

\* run's call of initialize_components
InitializeComponents(o) ==
    /\ pc[o] = "init"
    /\ Parked(o)
    /\ IF InitRaises(orch[o])
       THEN /\ Return(o, hist[o], Raised)
            /\ UNCHANGED orch
       ELSE /\ orch' = [orch EXCEPT ![o] = initialize_components(@)]
            /\ pc' = [pc EXCEPT ![o] = "render"]
            /\ UNCHANGED hist
    /\ UNCHANGED <<folders, datafiles, env, cfg, runsLeft, html, pdf, bucket>>

\* generate_html: "if template_list is None"
ResolveTemplateList(tl) == IF tl = NoneList THEN DefaultTemplateList ELSE tl

\* Mutant: a template that fails to render ends the loop.
generate_html_files_break(template_list, broken) ==
    LET bad == {i \in DOMAIN template_list : template_list[i] \in broken}
    IN  IF bad = {} THEN template_list
        ELSE SubSeq(template_list, 1, (CHOOSE i \in bad : \A j \in bad : i <= j) - 1)

\* Mutant: the path of a template is appended whether or not it rendered.
generate_html_files_all(template_list, broken) == template_list

\* HTMLGenerator.generate_html_files: the templates that render, in list order
\* (broken: the templates whose rendering raises; they are printed and skipped).
generate_html_files(template_list, broken) ==
    SelectSeq(template_list, LAMBDA t : t \notin broken)

\* Mutant: run goes on to the conversion whatever generate_html found.
RenderAbortsNever(generated) == FALSE

\* generate_html's verdict on the list html_generator.run returned
RenderAborts(generated) == generated = <<>>

\* WorkflowOrchestrator.generate_html and run's early return
GenerateHtml(o, broken, insertOk) ==
    /\ pc[o] = "render"
    /\ Parked(o)
    /\ LET s == orch[o]
           d == s.data_file_path
           tl == ResolveTemplateList(hist[o].template_list)
           h0 == Ev(hist[o], <<"render", "start">>)
           generated == generate_html_files(tl, broken)
       IN  /\ IF d = "corrupt"
              THEN \* HTMLGenerator.load_data raises: generate_html's except branch
                   /\ broken = {}
                   /\ Return(o, log_error(Ev(h0, <<"render", "fail">>), s.error_logger,
                                          "JSONDecodeError", "generate_html", insertOk),
                             None)
                   /\ UNCHANGED <<orch, html>>
              ELSE IF ResolveTemplatesFolder(cfg[o].templates_folder, OfferLanguage(d)) = Raises
              THEN \* load_data raises AttributeError: the same except branch
                   /\ broken = {}
                   /\ Return(o, log_error(Ev(h0, <<"render", "fail">>), s.error_logger,
                                          "AttributeError", "generate_html", insertOk),
                             None)
                   /\ UNCHANGED <<orch, html>>
              ELSE IF ResolveTemplatesFolder(cfg[o].templates_folder, OfferLanguage(d))
                          \notin folders
              THEN \* setup_jinja_environment raises FileNotFoundError: the same
                   \* except branch, after load_data has chosen the folder
                   /\ broken = {}
                   /\ Return(o, log_error(Ev([h0 EXCEPT !.templates_folder =
                                                 ResolveTemplatesFolder(cfg[o].templates_folder,
                                                                        OfferLanguage(d))],
                                             <<"render", "fail">>),
                                          s.error_logger,
                                          "FileNotFoundError", "generate_html", insertOk),
                             None)
                   /\ UNCHANGED <<orch, html>>
              ELSE /\ html' = [t \in Templates |->
                                  IF t \in Range(generated) THEN d ELSE html[t]]
                   /\ orch' = [orch EXCEPT ![o].generated_html_files = generated]
                   /\ LET h1 == [h0 EXCEPT !.templates_folder =
                                               ResolveTemplatesFolder(cfg[o].templates_folder,
                                                                      OfferLanguage(d)),
                                           !.rendered = generated,
                                           !.failed = broken \cap Range(tl)]
                      IN  IF RenderAborts(generated)
                          THEN Return(o, log_error(Ev(h1, <<"render", "fail">>), s.error_logger,
                                                   "HTMLGenerationError", "generate_html",
                                                   insertOk),
                                      None)
                          ELSE /\ pc' = [pc EXCEPT ![o] = "rasterize"]
                               /\ hist' = [hist EXCEPT ![o] = Ev(h1, <<"render", "ok">>)]
    /\ UNCHANGED <<folders, datafiles, env, cfg, runsLeft, pdf, bucket>>

\* Mutant: an insert that fails inside log_error is not caught and ends run
\* with the exception.
ConversionFailedSinkRaises(o, s, h, insertOk) ==
    /\ orch' = [orch EXCEPT ![o] = [s EXCEPT !.generated_pdf_path = None]]
    /\ Return(o, log_error(Ev(h, <<"rasterize", "fail">>), s.error_logger,
                           "PDFConversionError", "convert_to_pdf", insertOk),
              IF s.error_logger = "enabled" /\ ~insertOk THEN Raised ELSE None)

\* convert_to_pdf when pdf_converter.run returned None: generated_pdf_path is
\* None, one PDFConversionError is logged, and run returns None.
ConversionFailed(o, s, h, insertOk) ==
    /\ orch' = [orch EXCEPT ![o] = [s EXCEPT !.generated_pdf_path = None]]
    /\ Return(o, log_error(Ev(h, <<"rasterize", "fail">>), s.error_logger,
                           "PDFConversionError", "convert_to_pdf", insertOk),
              None)

\* convert_to_pdf when pdf_converter.run raised: its except branch.
ConversionRaised(o, s, h, error_name, insertOk) ==
    /\ orch' = [orch EXCEPT ![o] = s]
    /\ Return(o, log_error(Ev(h, <<"rasterize", "fail">>), s.error_logger,
                           error_name, "convert_to_pdf", insertOk),
              None)

\* Mutant: a run after the first one of an orchestrator prints to another name.
OutputPdfPathPerRun(o) ==
    <<cfg[o].pdf_output_folder,
      IF hist[o].run > 1 THEN InitialPdfFilename ELSE orch[o].pdf_filename>>

\* The path page.pdf prints to: pdf_output_folder / pdf_filename
OutputPdfPath(o) == <<cfg[o].pdf_output_folder, orch[o].pdf_filename>>

\* PDFConverter.run up to convert_html_to_pdf: load_data, the missing-file check
ConvertBegin(o, insertOk) ==
    /\ pc[o] = "rasterize"
    /\ Parked(o)
    /\ LET files == orch[o].generated_html_files
           s == [orch[o] EXCEPT !.pdf_filename = PdfFilename(orch[o].data_file_path)]
           h == [Ev(hist[o], <<"rasterize", "start">>) EXCEPT !.rasterInput = files]
           missing == {t \in Range(files) : html[t] = ""}
       IN  IF missing # {}
           THEN ConversionFailed(o, s, h, insertOk)
           ELSE /\ orch' = [orch EXCEPT ![o] = s]
                /\ pc' = [pc EXCEPT ![o] = "import"]
                /\ hist' = [hist EXCEPT ![o] = h]
    /\ UNCHANGED <<folders, datafiles, env, cfg, runsLeft, html, pdf, bucket>>

\* convert_html_to_pdf: the import of playwright and the exists check, up to
\* the first awaited call.
ImportPlaywright(o, ok, insertOk) ==
    /\ pc[o] = "import"
    /\ Parked(o)
    /\ LET files == orch[o].generated_html_files
       IN  IF ~ok
           THEN \* except ImportError
                /\ pc' = [pc EXCEPT ![o] = "install"]
                /\ UNCHANGED <<orch, hist>>
           ELSE IF \E t \in Range(files) : html[t] = ""
           THEN ConversionFailed(o, orch[o], hist[o], insertOk)
           ELSE /\ pc' = [pc EXCEPT ![o] = "launch"]
                /\ UNCHANGED <<orch, hist>>
    /\ UNCHANGED <<folders, datafiles, env, cfg, runsLeft, html, pdf, bucket>>

\* What follows a successful install: convert_html_to_pdf calls itself again.
AfterInstall == "import"

\* PDFConverter.install_playwright inside the ImportError handler
InstallPlaywright(o, ok, insertOk) ==
    /\ pc[o] = "install"
    /\ Parked(o)
    /\ hist[o].installs < MaxInstalls
    /\ LET h == [hist[o] EXCEPT !.installs = @ + 1]
       IN  IF ok
           THEN /\ pc' = [pc EXCEPT ![o] = AfterInstall]
                /\ hist' = [hist EXCEPT ![o] = h]
                /\ UNCHANGED orch
           ELSE ConversionRaised(o, orch[o], h, "CalledProcessError", insertOk)
    /\ UNCHANGED <<folders, datafiles, env, cfg, runsLeft, html, pdf, bucket>>

\* '<div style="page-break-before: always;"></div>'
PageBreak == <<"page-break-before: always", "">>

\* Mutant: the marker is added before every page, the first one included.
combined_html_leading(html_contents, n) ==
    [i \in 1..(2 * n) |-> IF i % 2 = 1 THEN PageBreak ELSE html_contents[i \div 2]]

\* convert_html_to_pdf: combined_html after the first n files of the loop; the
\* marker is added before the content of every file but the first.
RECURSIVE combined_html(_, _)
combined_html(html_contents, n) ==
    IF n = 0 THEN <<>>
    ELSE combined_html(html_contents, n - 1)
             \o (IF n - 1 > 0 THEN <<PageBreak>> ELSE <<>>)
             \o <<html_contents[n]>>

\* An exception raised inside "async with async_playwright() as p": the block
\* is left through the awaited __aexit__ before any handler of
\* convert_html_to_pdf runs.
RaiseInBlock(o, h) ==
    /\ hist' = [hist EXCEPT ![o] = [h EXCEPT !.raising = TRUE]]
    /\ pc' = [pc EXCEPT ![o] = "aexit"]
    /\ UNCHANGED orch

\* async_playwright / chromium.launch / new_context / new_page, then the
\* synchronous combination of the pages into the temporary file.
BrowserLaunch(o, ok) ==
    /\ pc[o] = "launch"
    /\ Parked(o)
    /\ LET files == orch[o].generated_html_files
       IN  IF ok /\ files # <<>> /\ \A t \in Range(files) : html[t] # ""
           THEN /\ hist' = [hist EXCEPT
                              ![o].pagesRead = [i \in DOMAIN files |-> <<files[i], html[files[i]]>>],
                              ![o].document =
                                  combined_html([i \in DOMAIN files |-> <<files[i], html[files[i]]>>],
                                                Len(files)),
                              ![o].tmp = "exists"]
                /\ pc' = [pc EXCEPT ![o] = "goto"]
                /\ UNCHANGED orch
           ELSE RaiseInBlock(o, hist[o])
    /\ UNCHANGED <<folders, datafiles, env, cfg, runsLeft, html, pdf, bucket>>

\* page.goto, wait_for_load_state, sleep
PageGoto(o, ok) ==
    /\ pc[o] = "goto"
    /\ Parked(o)
    /\ IF ok
       THEN /\ pc' = [pc EXCEPT ![o] = "print"]
            /\ UNCHANGED <<orch, hist>>
       ELSE RaiseInBlock(o, hist[o])
    /\ UNCHANGED <<folders, datafiles, env, cfg, runsLeft, html, pdf, bucket>>

\* page.pdf(path=output_pdf_path)
PagePdf(o, ok) ==
    /\ pc[o] = "print"
    /\ Parked(o)
    /\ IF ok
       THEN /\ pdf' = [pdf EXCEPT ![OutputPdfPath(o)] =
                          <<o, hist[o].run>>]
            /\ hist' = [hist EXCEPT ![o].written = @ \cup {OutputPdfPath(o)},
                                     ![o].prints = @ + 1]
            /\ pc' = [pc EXCEPT ![o] = "close"]
            /\ UNCHANGED orch
       ELSE /\ RaiseInBlock(o, [hist[o] EXCEPT !.prints = @ + 1])
            /\ UNCHANGED pdf
    /\ UNCHANGED <<folders, datafiles, env, cfg, runsLeft, html, bucket>>

\* browser.close and, when it returns, the removal of the temporary file, the
\* last statement of the "async with" block.
BrowserClose(o, ok) ==
    /\ pc[o] = "close"
    /\ Parked(o)
    /\ IF ok
       THEN /\ hist' = [hist EXCEPT ![o].tmp = "deleted"]
            /\ pc' = [pc EXCEPT ![o] = "aexit"]
            /\ UNCHANGED orch
       ELSE RaiseInBlock(o, hist[o])
    /\ UNCHANGED <<folders, datafiles, env, cfg, runsLeft, html, pdf, bucket>>

\* The sets of HTML files whose unlink raises that the model tries.
StuckSets == { {}, {"page2.html"} }

\* PDFConverter.cleanup_html_files(): the default list, whatever was generated;
\* a file whose unlink raises (stuck) is printed and left in place.
cleanup_html_files(folder, stuck) ==
    [t \in Templates |->
        IF t \in Range(CleanupList) /\ t \notin stuck THEN "" ELSE folder[t]]

\* Mutant: the cleanup runs whatever the flag says.
CleanupAfterAlways(pdf_path_ok, cleanup) == TRUE

\* PDFConverter.run: "if pdf_path and cleanup"
CleanupAfter(pdf_path_ok, cleanup) == pdf_path_ok /\ cleanup

\* The awaited __aexit__ of async_playwright returns: an exception raised in
\* the block (or by __aexit__ itself: ok is false) reaches the handler of
\* convert_html_to_pdf, which returns None; otherwise the rest of
\* convert_html_to_pdf, PDFConverter.run (cleanup_html_files) and convert_to_pdf
\* follow, which are synchronous.
PlaywrightExit(o, ok, stuck, insertOk) ==
    /\ pc[o] = "aexit"
    /\ Parked(o)
    /\ hist[o].raising => ok
    /\ (~ok \/ hist[o].raising \/ ~cfg[o].cleanup_html) => stuck = {}
    /\ LET pdf_path_ok == ok /\ ~hist[o].raising
           cleanup == CleanupAfter(pdf_path_ok, cfg[o].cleanup_html)
           h1 == Ev(hist[o], <<"rasterize", "ok">>)
           h2 == IF cleanup
                 THEN [Ev(Ev(h1, <<"cleanup", "start">>), <<"cleanup", "end">>) EXCEPT
                         !.htmlDeleted = {t \in Range(CleanupList) \ stuck : html[t] # ""},
                         !.htmlStuck = {t \in Range(CleanupList) \cap stuck : html[t] # ""}]
                 ELSE h1
       IN  /\ html' = IF cleanup THEN cleanup_html_files(html, stuck) ELSE html
           /\ IF pdf_path_ok
              THEN /\ orch' = [orch EXCEPT
                                 ![o].generated_pdf_path = LocalPath(OutputPdfPath(o))]
                   /\ hist' = [hist EXCEPT ![o] = h2]
                   /\ pc' = [pc EXCEPT ![o] = "upload"]
              ELSE ConversionFailed(o, orch[o], [hist[o] EXCEPT !.raising = FALSE], insertOk)
    /\ UNCHANGED <<folders, datafiles, env, cfg, runsLeft, pdf, bucket>>

\* SupabaseUploader.upload_from_finalPdf_folder: where the file is read from
UploadSource(pdf_filename) == <<DefaultFolder, pdf_filename>>

\* upload_pdf: file_path.suffix.lower() == '.pdf'; a name that is nothing but
\* ".pdf" is a hidden file without a suffix.
HasPdfSuffix(pdf_filename) ==
    Len(pdf_filename) > 1 /\ pdf_filename[Len(pdf_filename)] = ".pdf"

\* What the store and the file system do to one upload: the upload goes
\* through, the read of the file fails (open or f.read() raises, before the
\* store is called), the store's upload call fails, or the stat of the file is
\* refused (file_path.exists() raises PermissionError).
UploadOutcomes == {"ok", "read_error", "storage_error", "raise"}

\* SupabaseUploader.upload_pdf: the dictionary it returns; [raised |-> e] when
\* the call ends with exception e instead.
upload_pdf(file_exists, file_name, bucket_name, destination_path, outcome) ==
    IF outcome = "raise"
    THEN [raised |-> "PermissionError"]
    ELSE IF ~file_exists
    THEN [success |-> FALSE, error |-> "File not found"]
    ELSE IF ~HasPdfSuffix(file_name)
    THEN [success |-> FALSE, error |-> "File is not a PDF"]
    ELSE IF outcome \in {"read_error", "storage_error"}
    THEN [success |-> FALSE, error |-> "Failed to upload file"]
    ELSE [success |-> TRUE,
          url |-> PublicUrl(bucket_name, destination_path),
          path |-> destination_path,
          bucket |-> bucket_name,
          file_name |-> file_name]

\* Mutant: the local PDF is never unlinked.
DeletesLocalNever(delete_local_after_upload, unlinkRaises) == FALSE

\* upload_to_supabase_storage after a successful upload: the local PDF is
\* unlinked when the option is set; an unlink that raises is only printed.
DeletesLocal(delete_local_after_upload, unlinkRaises) ==
    delete_local_after_upload /\ ~unlinkRaises

\* Mutant: the upload stage goes to the store whatever the configuration.
UploadSkippedNever(s) == FALSE

\* upload_to_supabase_storage: "if not self.upload_to_supabase" and
\* "if not self.supabase_uploader", both of which return True at once.
UploadSkipped(s) == ~s.upload_to_supabase \/ ~s.supabase_uploader

\* WorkflowOrchestrator.upload_to_supabase_storage
Upload(o, outcome, unlinkOk, insertOk) ==
    /\ pc[o] = "upload"
    /\ Parked(o)
    /\ pc' = [pc EXCEPT ![o] = "finish"]
    /\ LET s == orch[o]
           h0 == Ev(hist[o], <<"upload", "start">>)
           pdf_path == <<s.generated_pdf_path.where, s.generated_pdf_path.name>>
           pdf_filename == s.generated_pdf_path.name
           src == UploadSource(pdf_filename)
           result == upload_pdf(IsFile(pdf[src]), pdf_filename, BucketName,
                                pdf_filename, outcome)
           h1 == [h0 EXCEPT !.upload_result = result]
       IN  IF UploadSkipped(s)
           THEN /\ hist' = [hist EXCEPT ![o] = Ev(h0, <<"upload", "skip">>)]
                /\ UNCHANGED <<orch, pdf, bucket>>
           ELSE IF "raised" \in DOMAIN result
           THEN /\ hist' = [hist EXCEPT ![o] =
                              log_error(Ev(h1, <<"upload", "fail">>), s.error_logger,
                                        result.raised,
                                        "upload_to_supabase_storage", insertOk)]
                /\ UNCHANGED <<orch, pdf, bucket>>
           ELSE IF ~result.success
           THEN /\ hist' = [hist EXCEPT ![o] =
                              log_error(Ev([h1 EXCEPT !.storeCalls =
                                               IF result.error = "Failed to upload file"
                                                  /\ outcome = "storage_error"
                                               THEN @ + 1 ELSE @],
                                           <<"upload", "fail">>),
                                        s.error_logger, "SupabaseUploadError",
                                        "upload_to_supabase_storage", insertOk)]
                /\ UNCHANGED <<orch, pdf, bucket>>
           ELSE LET unlinkRaises == ~unlinkOk \/ ~IsFile(pdf[pdf_path])
                    deleted == DeletesLocal(cfg[o].delete_local_after_upload, unlinkRaises)
                IN  /\ bucket' = [bucket EXCEPT ![result.path] = pdf[src]]
                    /\ orch' = [orch EXCEPT ![o].supabase_url = result.url]
                    /\ pdf' = IF deleted THEN [pdf EXCEPT ![pdf_path] = NoFile] ELSE pdf
                    /\ hist' = [hist EXCEPT ![o] =
                                  Ev([h1 EXCEPT !.storeCalls = @ + 1,
                                                !.uploadOK = TRUE,
                                                !.unlinkFailed =
                                                    cfg[o].delete_local_after_upload
                                                    /\ unlinkRaises],
                                     <<"upload", "ok">>)]
    /\ UNCHANGED <<folders, datafiles, env, cfg, runsLeft, html>>

\* SupabaseUploader.delete_file: the object is removed from the bucket (ok:
\* the store's remove call did not raise, True is returned; otherwise False).
delete_file(store, file_path, ok) ==
    IF ok THEN [store EXCEPT ![file_path] = NoFile] ELSE store

\* A caller of delete_file on an uploader it constructed (which takes working
\* credentials).  The method is synchronous: it runs while every coroutine is
\* suspended in an awaited call or is not running.
DeleteFile(file_path, ok) ==
    /\ env = "ok"
    /\ \A o \in Orchestrators : Parked(o)
    /\ bucket' = delete_file(bucket, file_path, ok)
    /\ UNCHANGED <<folders, datafiles, env, cfg, orch, pc, runsLeft, html, pdf, hist>>

\* What run returns after the upload step
ReturnValue(s) ==
    IF s.supabase_url # None THEN s.supabase_url ELSE s.generated_pdf_path

\* run's success summary and return
Finish(o) ==
    /\ pc[o] = "finish"
    /\ Parked(o)
    /\ Return(o, hist[o], ReturnValue(orch[o]))
    /\ UNCHANGED <<folders, datafiles, env, cfg, orch, runsLeft, html, pdf, bucket>>

\* ------------------------------------------------------------ main.py
\* uuid.uuid4().hex[:8]: the values the model draws.
UuidSuffixes == {"1a2b3c4d", "9f8e7d6c"}

\* data_{offer_id}_{uuid}.json; the offer id is that of the record.
TempDataFile(d, u) == <<"data", d, u, ".json">>

\* asyncio.wait_for cancelled the run.
Cancelled == Loc("cancelled", "", <<>>)

\* Path(pdf_path).exists(), pdf_path being what the workflow returned: a
\* public URL is not the path of a file.
PathExists(pdf_path) ==
    /\ pdf_path.kind = "path"
    /\ IsFile(pdf[<<pdf_path.where, pdf_path.name>>])

Response(status_code, pdf_path) == [status_code |-> status_code, pdf_path |-> pdf_path]

\* generate_pdf after the workflow has ended: the response for what
\* run_with_custom_data returned or raised.  The route is declared with
\* status_code = HTTP_201_CREATED, the status of the response it returns.
generate_pdf(pdf_path, exists) ==
    IF pdf_path = Raised THEN Response(500, None)
    ELSE IF pdf_path = None THEN Response(500, None)
    ELSE IF ~exists THEN Response(500, None)
    ELSE Response(201, pdf_path)

\* generate_pdf up to its await: the validated record is written to a
\* temporary data file, WorkflowOrchestrator() is constructed, and wait_for
\* makes a task of run_with_custom_data on the file and suspends generate_pdf.
\* The task has not taken a step yet.
GeneratePdfStart(o, d, u) ==
    /\ pc[o] = "idle"
    /\ runsLeft[o] > 0
    /\ Parked(o)
    /\ runsLeft' = [runsLeft EXCEPT ![o] = @ - 1]
    /\ datafiles' = datafiles \cup {TempDataFile(d, u)}
    /\ pc' = [pc EXCEPT ![o] = "scheduled"]
    /\ hist' = [hist EXCEPT ![o] = [NewHist EXCEPT !.run = hist[o].run + 1,
                                                   !.temp_data = TempDataFile(d, u)]]
    /\ UNCHANGED <<folders, env, cfg, orch, html, pdf, bucket>>

\* The event loop gives the task its first step: run_with_custom_data begins
\* on the temporary data file.  The step was queued when the task was made, so
\* it is taken before the timeout can expire.
RunScheduled(o) ==
    /\ pc[o] = "scheduled"
    /\ Parked(o)
    /\ run_with_custom_data(o, hist[o].temp_data[2], hist[o])
    /\ UNCHANGED <<folders, datafiles, env, cfg, runsLeft, html, pdf, bucket>>

\* generate_pdf when wait_for's timeout expires: the run is suspended in an
\* awaited call and is cancelled there (CancelledError is not an Exception, so
\* no handler of the workflow runs); the handler of TimeoutError removes the
\* temporary data file and answers 504.
GeneratePdfTimeout(o) ==
    /\ pc[o] \in AwaitPoints
    /\ hist[o].temp_data # <<>>
    /\ Parked(o)
    /\ pc' = [pc EXCEPT ![o] = "responded"]
    /\ datafiles' = datafiles \ {hist[o].temp_data}
    /\ hist' = [hist EXCEPT ![o].result = Cancelled,
                             ![o].response = Response(504, None)]
    /\ UNCHANGED <<folders, env, cfg, orch, runsLeft, html, pdf, bucket>>

\* generate_pdf after the await: the checks of pdf_path, the removal of the
\* temporary data file (on the success path and in every handler), the
\* response.
GeneratePdfRespond(o) ==
    /\ pc[o] = "done"
    /\ hist[o].temp_data # <<>>
    /\ Parked(o)
    /\ pc' = [pc EXCEPT ![o] = "responded"]
    /\ datafiles' = datafiles \ {hist[o].temp_data}
    /\ hist' = [hist EXCEPT ![o].response =
                                generate_pdf(hist[o].result, PathExists(hist[o].result))]
    /\ UNCHANGED <<folders, env, cfg, orch, runsLeft, html, pdf, bucket>>

\* ------------------------------------------------------- specifications
Envs == {"no_module", "no_creds", "bad_creds", "ok"}

EmptyDisk ==
    /\ html = [t \in Templates |-> ""]
    /\ pdf = [p \in PdfPaths |-> NoFile]
    /\ bucket = [n \in PdfNames |-> NoFile]
    /\ datafiles = {}

\* The templates folders on disk: each language folder exists or does not;
\* so does a folder a caller names, in which case the language folders, which
\* that caller's runs do not consult, are taken to exist.
FoldersOnDisk ==
    /\ folders \in SUBSET (LanguageFolders \cup TemplatesFolders)
    /\ (\A o \in Orchestrators : cfg[o].templates_folder = NoFolder) =>
           folders \cap TemplatesFolders = {}
    /\ (\E o \in Orchestrators : cfg[o].templates_folder # NoFolder) =>
           LanguageFolders \subseteq folders

\* One orchestrator instance, constructed with any arguments: used for one run
\* (examples 1 to 6), or for up to MaxRuns runs one after the other (example_7).
Init ==
    /\ env \in Envs
    /\ cfg \in [Orchestrators -> Configs]
    /\ cfg["o2"] = DefaultConfig
    /\ orch = [o \in Orchestrators |-> NewOrchestrator(cfg[o])]
    /\ pc = [o \in Orchestrators |-> "idle"]
    /\ runsLeft \in [Orchestrators -> {0, 1, MaxRuns}]
    /\ runsLeft["o1"] > 0
    /\ runsLeft["o2"] = 0
    /\ hist = [o \in Orchestrators |-> NewHist]
    /\ EmptyDisk
    /\ FoldersOnDisk

\* The steps of a run once it has started.
Step(o) ==
        \/ Validate(o)
        \/ InitializeComponents(o)
        \/ \E broken \in BrokenSets, insertOk \in BOOLEAN :
               GenerateHtml(o, broken, insertOk)
        \/ \E insertOk \in BOOLEAN : ConvertBegin(o, insertOk)
        \/ \E ok \in BOOLEAN, insertOk \in BOOLEAN : ImportPlaywright(o, ok, insertOk)
        \/ \E ok \in BOOLEAN, insertOk \in BOOLEAN : InstallPlaywright(o, ok, insertOk)
        \/ \E ok \in BOOLEAN : BrowserLaunch(o, ok)
        \/ \E ok \in BOOLEAN : PageGoto(o, ok)
        \/ \E ok \in BOOLEAN : PagePdf(o, ok)
        \/ \E ok \in BOOLEAN : BrowserClose(o, ok)
        \/ \E ok \in BOOLEAN, stuck \in StuckSets, insertOk \in BOOLEAN :
               PlaywrightExit(o, ok, stuck, insertOk)
        \/ \E outcome \in UploadOutcomes, unlinkOk \in BOOLEAN, insertOk \in BOOLEAN :
               Upload(o, outcome, unlinkOk, insertOk)
        \/ Finish(o)

Next ==
    \E o \in Orchestrators :
        \/ \E d \in DataInputs, tl \in TemplateInputs : StartRun(o, d, tl)
        \/ \E d \in DataInputs, tl \in TemplateInputs : StartDirect(o, d, tl)
        \/ Step(o)

Spec == Init /\ [][Next]_vars

\* The HTTP endpoint (main.py, generate_pdf) serving two requests at once: each
\* writes its temporary data file, constructs WorkflowOrchestrator() and awaits
\* one run_with_custom_data under wait_for, on the same event loop and in the
\* same working directory.
InitConcurrent ==
    /\ env \in Envs
    /\ cfg = [o \in Orchestrators |-> DefaultConfig]
    /\ orch = [o \in Orchestrators |-> NewOrchestrator(cfg[o])]
    /\ pc = [o \in Orchestrators |-> "idle"]
    /\ runsLeft = [o \in Orchestrators |-> 1]
    /\ hist = [o \in Orchestrators |-> NewHist]
    /\ EmptyDisk
    /\ FoldersOnDisk

\* The steps of a request once generate_pdf has been called.
Serve(o) ==
        \/ RunScheduled(o)
        \/ Step(o)
        \/ GeneratePdfTimeout(o)
        \/ GeneratePdfRespond(o)

\* Two requests for different offers, which draw different suffixes.
OfferOf(o) == IF o = "o1" THEN "offerA" ELSE "offerB"
UuidOf(o) == IF o = "o1" THEN "1a2b3c4d" ELSE "9f8e7d6c"

NextConcurrent ==
    \E o \in Orchestrators :
        \/ GeneratePdfStart(o, OfferOf(o), UuidOf(o))
        \/ Serve(o)

SpecConcurrent == InitConcurrent /\ [][NextConcurrent]_vars

\* Two requests for offers of the same client, which draw different suffixes,
\* in a deployment whose Supabase credentials work.
InitSameClient ==
    /\ InitConcurrent
    /\ env = "ok"

NextSameClient ==
    \E o \in Orchestrators :
        \/ GeneratePdfStart(o, "offerA", UuidOf(o))
        \/ Serve(o)

SpecSameClient == InitSameClient /\ [][NextSameClient]_vars

\* The same two requests with both language folders on disk, and a caller of
\* SupabaseUploader.delete_file that removes objects from the bucket while
\* they are served.
InitStore ==
    /\ InitSameClient
    /\ folders = LanguageFolders

NextStore ==
    \/ NextSameClient
    \/ \E file_path \in PdfNames, ok \in BOOLEAN : DeleteFile(file_path, ok)

SpecStore == InitStore /\ [][NextStore]_vars

\* The HTTP endpoint serving one request, in any environment.
InitRequest ==
    /\ env \in Envs
    /\ cfg = [o \in Orchestrators |-> DefaultConfig]
    /\ orch = [o \in Orchestrators |-> NewOrchestrator(cfg[o])]
    /\ pc = [o \in Orchestrators |-> "idle"]
    /\ runsLeft = [o \in Orchestrators |-> IF o = "o1" THEN 1 ELSE 0]
    /\ hist = [o \in Orchestrators |-> NewHist]
    /\ EmptyDisk
    /\ FoldersOnDisk

NextRequest ==
    \E o \in Orchestrators :
        \/ \E d \in Offers, u \in UuidSuffixes : GeneratePdfStart(o, d, u)
        \/ Serve(o)

SpecRequest == InitRequest /\ [][NextRequest]_vars

\* The HTTP endpoint serving two requests at once that carry the same offer
\* id, in a deployment whose Supabase credentials are missing or rejected.
InitEndpoint ==
    /\ InitConcurrent
    /\ env \in {"no_creds", "bad_creds"}

NextEndpoint ==
    \E o \in Orchestrators :
        \/ \E u \in UuidSuffixes : GeneratePdfStart(o, "offerA", u)
        \/ Serve(o)

SpecEndpoint == InitEndpoint /\ [][NextEndpoint]_vars

\* Runs on records that differ in the client name only, with the default
\* template list.
NextNaming ==
    \E o \in Orchestrators :
        \/ \E d \in NameInputs : StartRun(o, d, NoneList)
        \/ \E d \in NameInputs : StartDirect(o, d, NoneList)
        \/ Step(o)

SpecNaming == Init /\ [][NextNaming]_vars

\* One orchestrator that is given the same offer again and again
\* (run_with_custom_data with the same data file, default template list).
InitRerun ==
    /\ env \in Envs
    /\ cfg \in [Orchestrators -> Configs]
    /\ cfg["o2"] = DefaultConfig
    /\ \E d \in Offers :
           orch = [o \in Orchestrators |->
                      [NewOrchestrator(cfg[o]) EXCEPT !.data_file_path = d]]
    /\ pc = [o \in Orchestrators |-> "idle"]
    /\ runsLeft = [o \in Orchestrators |-> IF o = "o1" THEN MaxRuns ELSE 0]
    /\ hist = [o \in Orchestrators |-> NewHist]
    /\ EmptyDisk
    /\ FoldersOnDisk

NextRerun ==
    \E o \in Orchestrators :
        \/ StartRun(o, orch[o].data_file_path, NoneList)
        \/ Step(o)

SpecRerun == InitRerun /\ [][NextRerun]_vars

\* ----------------------------------------------------------------- claims
Happened(o, e) == e \in Range(hist[o].events)

\* a happened, and before b did (if b happened at all)
Precedes(ev, a, b) ==
    \A i \in DOMAIN ev : ev[i] = b => \E j \in 1..(i - 1) : ev[j] = a

Stages == {"validate", "render", "rasterize", "cleanup", "upload"}

\* The stages that have started and not ended after the first k events.
OpenStages(ev, k) ==
    {st \in Stages :
        Cardinality({i \in 1..k : ev[i] = <<st, "start">>})
          > Cardinality({i \in 1..k : ev[i][1] = st /\ ev[i][2] # "start"})}

\* C1: the stages of a run are strictly sequential.  Rendering starts only
\* after validation passed, rasterization only after rendering finished with at
\* least one page, upload only after rasterization finished and printed a PDF,
\* and after any number of events of a run at most one stage is in progress.
C1_StagesSequential ==
    \A o \in Orchestrators :
        LET ev == hist[o].events
        IN  /\ Precedes(ev, <<"validate", "ok">>, <<"render", "start">>)
            /\ Precedes(ev, <<"render", "ok">>, <<"rasterize", "start">>)
            /\ Happened(o, <<"rasterize", "start">>) => hist[o].rendered # <<>>
            /\ Precedes(ev, <<"rasterize", "ok">>, <<"upload", "start">>)
            /\ Happened(o, <<"upload", "start">>) =>
                   \E p \in hist[o].written : orch[o].generated_pdf_path = LocalPath(p)
            /\ \A k \in 0..Len(ev) : Cardinality(OpenStages(ev, k)) <= 1
            /\ \A st \in Stages :
                   Cardinality({i \in DOMAIN ev : ev[i] = <<st, "start">>}) <= 1

\* A run that went through validation, rendering, rasterization and upload.
C1_Witness ==
    \E o \in Orchestrators :
        /\ pc[o] = "done"
        /\ Happened(o, <<"upload", "ok">>)
        /\ Happened(o, <<"cleanup", "end">>)

Succeeded(o) == pc[o] = "done" /\ hist[o].result.kind \in {"path", "url"}

\* The PDF file the current run of o printed, if it is still the file there.
OwnPdfAt(o, p) == pdf[p] = <<o, hist[o].run>>

\* C2: a successful run returns the remote URL if and only if the upload of
\* that same run succeeded, and otherwise the local path of the PDF that run
\* produced; also on an orchestrator that has completed earlier runs.
C2_ReturnsUrlIffUploaded ==
    \A o \in Orchestrators :
        Succeeded(o) =>
            /\ hist[o].result.kind = "url" <=> hist[o].uploadOK
            /\ ~hist[o].uploadOK =>
                   \E p \in hist[o].written : hist[o].result = LocalPath(p)

\* C3: concurrent runs share no mutable state.  Every page a run hands to the
\* rasterizer was rendered from that run's own input record, and while a run
\* waits to read its pages no HTML file of its list holds another run's
\* rendering or has been removed.
C3_RunsShareNoState ==
    \A o \in Orchestrators :
        /\ \A i \in DOMAIN hist[o].pagesRead :
               hist[o].pagesRead[i][2] = orch[o].data_file_path
        /\ pc[o] = "launch" =>
               \A t \in Range(orch[o].generated_html_files) :
                   html[t] = orch[o].data_file_path

\* Rendering was attempted and failed for every template of the list.
AllRendersFailed(o) ==
    /\ Happened(o, <<"render", "start">>)
    /\ orch[o].data_file_path \in Offers
    /\ hist[o].failed = Range(ResolveTemplateList(hist[o].template_list))

\* C4: if rendering fails for every template of the list, the run returns
\* None, prints no PDF, and attempts neither rasterization nor upload.
C4_NoPagesAborts ==
    \A o \in Orchestrators :
        AllRendersFailed(o) =>
            /\ pc[o] = "done"
            /\ hist[o].result = None
            /\ hist[o].written = {}
            /\ \A p \in PdfPaths : ~OwnPdfAt(o, p)
            /\ ~Happened(o, <<"rasterize", "start">>)
            /\ ~Happened(o, <<"upload", "start">>)
            /\ hist[o].storeCalls = 0
            /\ hist[o].pagesRead = <<>>

C4_Witness ==
    \E o \in Orchestrators :
        /\ AllRendersFailed(o)
        /\ pc[o] = "done"
        /\ hist[o].template_list \in CustomLists \cup {NoneList}
        /\ Len(hist[o].errors) = 1

\* The templates of the list of o's run that did not fail, in list order.
Survivors(o) ==
    SelectSeq(ResolveTemplateList(hist[o].template_list),
              LAMBDA t : t \notin hist[o].failed)

\* C5: a template that fails to render is skipped.  Once the templates are
\* loaded from their folder, if at least one template rendered the run does
\* not abort at the render stage and the rasterizer gets
\* exactly the templates that rendered, in the order of the template list; the
\* run aborts at the render stage only with no rendered page.
C5_FailedPagesSkipped ==
    \A o \in Orchestrators :
        /\ (Happened(o, <<"render", "start">>) /\ hist[o].templates_folder \in folders
              /\ Survivors(o) # <<>>)
               => /\ Happened(o, <<"render", "ok">>)
                  /\ hist[o].rendered = Survivors(o)
                  /\ orch[o].generated_html_files = Survivors(o)
        /\ Happened(o, <<"rasterize", "start">>) => hist[o].rasterInput = Survivors(o)
        /\ hist[o].pagesRead # <<>> =>
               [i \in DOMAIN hist[o].pagesRead |-> hist[o].pagesRead[i][1]] = Survivors(o)
        /\ Happened(o, <<"render", "fail">>) =>
               /\ hist[o].rendered = <<>>
               /\ hist[o].templates_folder \in folders => Survivors(o) = <<>>

\* Some templates failed, the others were read by the rasterizer.
C5_Witness ==
    \E o \in Orchestrators :
        /\ hist[o].failed # {}
        /\ Len(hist[o].pagesRead) >= 2
        /\ Happened(o, <<"rasterize", "ok">>)

\* C6: if rasterization fails at any point, the run returns None, attempts no
\* upload, and no PDF printed by this run is left in the PDF output folder.
C6_FailedRasterLeavesNoPdf ==
    \A o \in Orchestrators :
        (pc[o] = "done" /\ Happened(o, <<"rasterize", "fail">>)) =>
            /\ hist[o].result = None
            /\ ~Happened(o, <<"upload", "start">>)
            /\ hist[o].storeCalls = 0
            /\ \A p \in PdfPaths : ~OwnPdfAt(o, p)

\* C7: within one run at most one install/recovery of the renderer is
\* attempted.
C7_AtMostOneInstall ==
    \A o \in Orchestrators : hist[o].installs <= 1

\* C8: if rasterization succeeds and the configured upload fails, the run
\* returns the local path of a PDF that exists, and exactly one ErrorRecord is
\* emitted, for the upload failure.
C8_UploadFailureKeepsLocal ==
    \A o \in Orchestrators :
        (pc[o] = "done" /\ Happened(o, <<"upload", "fail">>)) =>
            /\ hist[o].result.kind = "path"
            /\ hist[o].result = orch[o].generated_pdf_path
            /\ IsFile(pdf[<<hist[o].result.where, hist[o].result.name>>])
            /\ Len(hist[o].errors) = 1
            /\ hist[o].errors[1].last_node_executed = "upload_to_supabase_storage"

\* The upload of o's run succeeded with delete-local-after-upload set.
UploadedWithDelete(o) ==
    pc[o] = "done" /\ hist[o].uploadOK /\ cfg[o].delete_local_after_upload

\* C9 as claimed: after a successful upload with delete-local-after-upload the
\* local PDF no longer exists and the returned location is the remote URL.
C9_LocalGoneAfterUpload ==
    \A o \in Orchestrators :
        UploadedWithDelete(o) =>
            /\ hist[o].result.kind = "url"
            /\ ~IsFile(pdf[<<orch[o].generated_pdf_path.where,
                            orch[o].generated_pdf_path.name>>])

\* C9 amended: after a successful upload with delete-local-after-upload the
\* returned location is the remote URL of this run's upload, and the local PDF
\* no longer exists unless its deletion raised, in which case it is still there.
C9_LocalGoneUnlessUnlinkFails ==
    \A o \in Orchestrators :
        UploadedWithDelete(o) =>
            LET p == <<orch[o].generated_pdf_path.where, orch[o].generated_pdf_path.name>>
            IN  /\ hist[o].result = PublicUrl(BucketName, orch[o].generated_pdf_path.name)
                /\ IsFile(pdf[p]) <=> hist[o].unlinkFailed
                /\ hist[o].unlinkFailed => OwnPdfAt(o, p)

C9_Witness ==
    \E o \in Orchestrators :
        /\ UploadedWithDelete(o)
        /\ ~hist[o].unlinkFailed
        /\ hist[o].result.kind = "url"

\* C10: if the input data file does not exist, run returns None before any
\* side effect: from the start of the run to its return no file is written or
\* deleted, nothing is rendered, rasterized or uploaded, and no ErrorRecord is
\* emitted.
C10_MissingInputNoSideEffect ==
    [][\A o \in Orchestrators :
          (orch'[o].data_file_path = "missing" /\ pc[o] # "done" /\ pc'[o] # pc[o]) =>
              /\ pc[o] \in {"idle", "validate"}
              /\ pc[o] = "idle" => hist'[o].events = <<>>
              /\ pc[o] = "validate" =>
                     /\ pc'[o] = "done"
                     /\ hist'[o].result = None
                     /\ hist'[o].events = <<<<"validate", "start">>, <<"validate", "fail">>>>
              /\ <<html', pdf', bucket'>> = <<html, pdf, bucket>>
              /\ hist'[o].rendered = <<>>
              /\ hist'[o].written = {}
              /\ hist'[o].htmlDeleted = {}
              /\ hist'[o].pagesRead = <<>>
              /\ hist'[o].installs = 0
              /\ hist'[o].storeCalls = 0
              /\ hist'[o].errors = <<>>]_vars

C10_Witness ==
    \E o \in Orchestrators :
        /\ pc[o] = "done"
        /\ orch[o].data_file_path = "missing"
        /\ hist[o].run = 2
        /\ hist[o].result = None

\* The current run of o was given a data file that exists and is not valid JSON.
CorruptInput(o) ==
    orch[o].data_file_path = "corrupt" /\ Happened(o, <<"validate", "start">>)

\* C11: a run whose input data file exists but is not parseable is rejected by
\* the validate stage: validation fails, the render stage never begins, and
\* the run returns None.
C11_UnparseableRejectedByValidate ==
    \A o \in Orchestrators :
        CorruptInput(o) =>
            /\ ~Happened(o, <<"validate", "ok">>)
            /\ ~Happened(o, <<"render", "start">>)
            /\ pc[o] = "done" => hist[o].result = None

\* The current run of o entered run and has returned to its caller.
RunReturned(o) == pc[o] = "done" /\ Happened(o, <<"validate", "start">>)

\* C12: run reports failure to its caller only when the input is missing, no
\* page rendered, or rasterization failed, and never by raising; once
\* rasterization has succeeded the run returns a location, whatever happens to
\* the upload, to the deletion of the local PDF or to the deletion of HTML files.
C12_OnlyFatalFailuresSurface ==
    \A o \in Orchestrators :
        RunReturned(o) =>
            /\ hist[o].result # Raised
            /\ hist[o].result = None =>
                   \/ /\ orch[o].data_file_path = "missing"
                      /\ Happened(o, <<"validate", "fail">>)
                   \/ /\ Happened(o, <<"render", "fail">>)
                      /\ hist[o].rendered = <<>>
                   \/ Happened(o, <<"rasterize", "fail">>)
            /\ Happened(o, <<"rasterize", "ok">>) =>
                   hist[o].result.kind \in {"path", "url"}

\* The ErrorRecords of o's run that name the step node.
RecordsOf(o, node) ==
    {i \in DOMAIN hist[o].errors : hist[o].errors[i].last_node_executed = node}

\* The number of times the stage st of o's run ended in failure.
StageFailures(o, st) ==
    Cardinality({i \in DOMAIN hist[o].events : hist[o].events[i] = <<st, "fail">>})

\* C13: with the Error Sink enabled, every failure caught during the render,
\* rasterize or upload stage produces exactly one ErrorRecord: one per template
\* that failed to render and per failed render stage, one per failed
\* rasterization, one per failed upload and one per failed deletion of the
\* local PDF.
C13_OneRecordPerFailure ==
    \A o \in Orchestrators :
        orch[o].error_logger = "enabled" =>
            /\ Cardinality(RecordsOf(o, "generate_html")) >= Cardinality(hist[o].failed)
            /\ Cardinality(RecordsOf(o, "generate_html")) >= StageFailures(o, "render")
            /\ Cardinality(RecordsOf(o, "convert_to_pdf")) = StageFailures(o, "rasterize")
            /\ Cardinality(RecordsOf(o, "upload_to_supabase_storage")) =
                   StageFailures(o, "upload") + (IF hist[o].unlinkFailed THEN 1 ELSE 0)
            /\ Len(hist[o].errors) <=
                   Cardinality(hist[o].failed) + StageFailures(o, "render")
                     + StageFailures(o, "rasterize") + StageFailures(o, "upload")
                     + (IF hist[o].unlinkFailed THEN 1 ELSE 0)

\* The step from the current state appends a stage event to o's run, and the
\* last one appended is e.
StageEnds(o, e) ==
    /\ hist'[o].run = hist[o].run
    /\ Len(hist'[o].events) > Len(hist[o].events)
    /\ hist'[o].events[Len(hist'[o].events)] = e

\* C14: the Error Sink cannot influence a run.  What a step that catches a
\* failure does to the run is fixed by the failure alone, whether the sink is
\* absent, disabled or enabled and whether its insert succeeds or fails: a failed
\* render or rasterize stage ends the run with None and leaves every file as
\* it is, a failed upload leaves the orchestrator and every file as they are
\* and goes on to the return, which yields the location.  The sink is written
\* only by an enabled logger, one record per caught stage failure, and run
\* raises only when the construction of the uploader does.
C14_SinkCannotInfluence ==
    [][\A o \in Orchestrators :
          /\ (hist'[o].run = hist[o].run /\ hist'[o].errors # hist[o].errors) =>
                 /\ orch[o].error_logger = "enabled"
                 /\ Len(hist'[o].errors) = Len(hist[o].errors) + 1
                 /\ SubSeq(hist'[o].errors, 1, Len(hist[o].errors)) = hist[o].errors
                 /\ \E st \in {"render", "rasterize", "upload"} : StageEnds(o, <<st, "fail">>)
          /\ (StageEnds(o, <<"render", "fail">>) \/ StageEnds(o, <<"rasterize", "fail">>)) =>
                 /\ pc'[o] = "done"
                 /\ hist'[o].result = None
                 /\ <<html', pdf', bucket'>> = <<html, pdf, bucket>>
          /\ StageEnds(o, <<"upload", "fail">>) =>
                 /\ pc'[o] = "finish"
                 /\ orch'[o] = orch[o]
                 /\ <<html', pdf', bucket'>> = <<html, pdf, bucket>>
          /\ (pc[o] = "finish" /\ pc'[o] = "done") =>
                 /\ hist'[o].result = ReturnValue(orch[o])
                 /\ hist'[o].result.kind \in {"path", "url"}
          /\ (pc[o] # "done" /\ pc'[o] = "done" /\ hist'[o].result = Raised) =>
                 /\ pc[o] \in {"idle", "init"}
                 /\ InitRaises(orch'[o])
                 /\ hist'[o].errors = <<>>]_vars

\* A rasterization failed, the insert of its ErrorRecord failed as well, and the
\* run returned None.
C14_Witness ==
    \E o \in Orchestrators :
        /\ pc[o] = "done"
        /\ Happened(o, <<"rasterize", "fail">>)
        /\ Len(hist[o].errors) = 1
        /\ ~hist[o].errors[1].inserted
        /\ hist[o].result = None

\* C15: for every template list given to a run in which no template fails to
\* render, the closing page is rendered and is the last page of the list
\* handed to the rasterizer.
C15_ClosingPageLast ==
    \A o \in Orchestrators :
        (Happened(o, <<"rasterize", "start">>) /\ hist[o].failed = {}) =>
            /\ hist[o].rasterInput # <<>>
            /\ hist[o].rasterInput[Len(hist[o].rasterInput)] = ClosingPage
            /\ Cardinality({i \in DOMAIN hist[o].rasterInput :
                               hist[o].rasterInput[i] = ClosingPage}) = 1

\* The upload stage of o's run has reached a terminal state.
UploadTerminated(o) ==
    \E e \in {"ok", "fail", "skip"} : Happened(o, <<"upload", e>>)

\* C16: cleanup is the last stage: a run deletes no HTML file before its upload
\* stage has succeeded, failed or been skipped.
C16_CleanupAfterUpload ==
    \A o \in Orchestrators :
        (hist[o].htmlDeleted # {} \/ Happened(o, <<"cleanup", "start">>)) =>
            /\ UploadTerminated(o)
            /\ \A e \in {"ok", "fail", "skip"} :
                   Precedes(hist[o].events, <<"upload", e>>, <<"cleanup", "start">>)
                     \/ ~Happened(o, <<"upload", e>>)

\* C17: with the cleanup flag set, after a successful run the HTML file of the
\* closing page that this run generated no longer exists.
C17_ClosingPageDeleted ==
    \A o \in Orchestrators :
        (Succeeded(o) /\ cfg[o].cleanup_html /\ ClosingPage \in Range(hist[o].rendered)) =>
            html[ClosingPage] = ""

\* C18: after a successful run with upload disabled and cleanup enabled in
\* which every template rendered and every deletion went through, for any
\* template list, the result is a local PDF path under the PDF output folder,
\* the HTML output folder holds at most the closing page file, and no
\* ErrorRecord was emitted.
C18_CleanSuccess ==
    \A o \in Orchestrators :
        (/\ Succeeded(o)
         /\ ~cfg[o].upload_to_supabase
         /\ cfg[o].cleanup_html
         /\ hist[o].failed = {}
         /\ hist[o].htmlStuck = {}) =>
            /\ hist[o].result = LocalPath(<<cfg[o].pdf_output_folder, orch[o].pdf_filename>>)
            /\ IsFile(pdf[<<cfg[o].pdf_output_folder, orch[o].pdf_filename>>])
            /\ \A t \in Templates \ {ClosingPage} : html[t] = ""
            /\ hist[o].errors = <<>>

\* C19: template-set resolution is total: for every record that can be
\* loaded, whatever its language tag, once rendering has begun in a run whose
\* caller named no templates folder (the tag is not consulted otherwise), the folder is
\* resolved, to the Polish folder when the trimmed, case-folded tag is
\* 'polish' and to the English folder for every other tag (including an
\* absent, empty or null one), and no exception ends the render stage.
C19_ResolutionTotal ==
    \A o \in Orchestrators :
        (/\ Happened(o, <<"render", "start">>)
         /\ orch[o].data_file_path # "corrupt"
         /\ cfg[o].templates_folder = NoFolder) =>
            /\ hist[o].templates_folder =
                   (IF orch[o].data_file_path = "offerA"
                    THEN "templates-Polish" ELSE "templates-English")
            /\ \A i \in DOMAIN hist[o].errors :
                   hist[o].errors[i].error_name # "AttributeError"

\* C20: the PDF filename is derived from the client name character by
\* character: an alphanumeric character, a space, a hyphen or an underscore is
\* kept in place, any other character becomes one underscore, and ".pdf" is
\* appended, so the name before the suffix is as long as the client name; the
\* same client name gives the same filename in every run ('Acme(TM) Co!!' gives
\* 'Acme_ Co__.pdf').
C20_FilenameDerivation ==
    \A o \in Orchestrators :
        Happened(o, <<"rasterize", "start">>) =>
            LET name == Company(orch[o].data_file_path)
                out == orch[o].pdf_filename
            IN  /\ Len(out) = Len(name) + 1
                /\ out[Len(out)] = ".pdf"
                /\ \A i \in DOMAIN name :
                       /\ name[i] \in {"A", "C", "D", "c", "m", "e", "o", "2", " ", "-", "_"}
                              => out[i] = name[i]
                       /\ name[i] \in {"TM", "!"} => out[i] = "_"
                /\ orch[o].data_file_path = "offerA" =>
                       out = <<"A", "c", "m", "e", "_", " ", "C", "o", "_", "_", ".pdf">>
                /\ orch[o].data_file_path = "offerB" =>
                       out = <<"C", "-", "D", "_", "2", ".pdf">>

\* The second run of an orchestrator printed the PDF of 'Acme(TM) Co!!'.
C20_Witness ==
    \E o \in Orchestrators :
        /\ hist[o].run = 2
        /\ orch[o].data_file_path = "offerA"
        /\ Happened(o, <<"rasterize", "ok">>)
        /\ IsFile(pdf[<<cfg[o].pdf_output_folder,
                        <<"A", "c", "m", "e", "_", " ", "C", "o", "_", "_", ".pdf">>>>])

\* C21: when the client name is empty or has no character the filename keeps,
\* the derived filename is the generic default base name followed by ".pdf"
\* ('offer.pdf'), not ".pdf" alone and not a run of underscores.
C21_EmptyNameGetsDefault ==
    \A o \in Orchestrators :
        LET name == Company(orch[o].data_file_path)
        IN  (/\ Happened(o, <<"rasterize", "start">>)
             /\ \A i \in DOMAIN name : ~IsAllowed(name[i])) =>
                orch[o].pdf_filename = <<"o", "f", "f", "e", "r", ".pdf">>

\* The PDF files in the output folder of o, and the objects in the bucket.
FilesInFolder(o) ==
    {p \in PdfPaths : p[1] = cfg[o].pdf_output_folder /\ IsFile(pdf[p])}

ObjectsInBucket == {k \in PdfNames : IsFile(bucket[k])}

\* C22: running the workflow again with the same offer is idempotent on the
\* artifacts: every run prints to the same local path and uploads under the
\* same key, so however often the offer is run there is at most one PDF file
\* for it in the output folder and at most one object for it in the bucket.
C22_RerunIdempotent ==
    \A o \in Orchestrators :
        LET name == PdfFilename(orch[o].data_file_path)
        IN  /\ hist[o].written \subseteq {<<cfg[o].pdf_output_folder, name>>}
            /\ FilesInFolder(o) \subseteq {<<cfg[o].pdf_output_folder, name>>}
            /\ ObjectsInBucket \subseteq {name}
            /\ Cardinality(FilesInFolder(o)) <= 1
            /\ Cardinality(ObjectsInBucket) <= 1

\* The second run of the offer has replaced the file and the object of the
\* first run.
C22_Witness ==
    \E o \in Orchestrators :
        LET name == PdfFilename(orch[o].data_file_path)
        IN  /\ hist[o].run = 2
            /\ hist[o].uploadOK
            /\ pdf[<<cfg[o].pdf_output_folder, name>>] = <<o, 2>>
            /\ bucket[name] = <<o, 2>>

\* The upload stage of o's run handed a file to the store or ended with an
\* exception of the upload call.
ReachedStore(o) ==
    \/ hist[o].storeCalls > 0
    \/ \E i \in DOMAIN hist[o].errors : hist[o].errors[i].error_name = "PermissionError"

\* C23: whatever PDF output folder is configured, an upload stage that is not
\* skipped uploads the PDF file this run's rasterization produced, the file at
\* the local path the rasterize stage returned: that file is handed to the
\* store, and after a successful upload the object under the derived filename
\* in the fixed bucket is this run's PDF.
C23_UploadsOwnPdf ==
    \A o \in Orchestrators :
        (/\ Happened(o, <<"upload", "start">>)
         /\ pc[o] \in {"finish", "done"}
         /\ ~Happened(o, <<"upload", "skip">>)
         /\ HasPdfSuffix(orch[o].pdf_filename)) =>
            /\ ReachedStore(o)
            /\ hist[o].uploadOK =>
                   /\ bucket[orch[o].pdf_filename] = <<o, hist[o].run>>
                   /\ orch[o].supabase_url = PublicUrl(BucketName, orch[o].pdf_filename)

\* C24: a run that succeeds alone succeeds under every interleaving with
\* another run: while a run has rendered its pages and has not yet read them
\* for the rasterization, every page it rendered is in the HTML folder; no
\* other run's cleanup deletes it.
C24_PagesSurviveOtherRuns ==
    \A o \in Orchestrators :
        pc[o] \in {"rasterize", "import", "install", "launch"} =>
            \A t \in Range(orch[o].generated_html_files) : html[t] # ""

\* workflow.py main: the exit status of the process.  main awaits the run and
\* drops what it returns; the interpreter exits with 1 when an exception
\* leaves asyncio.run and with 0 otherwise.
main(result) == IF result = Raised THEN 1 ELSE 0

\* The run the command line starts has ended: WorkflowOrchestrator() with its
\* default arguments and no template list.
CliRunEnded(o) ==
    /\ cfg[o] = DefaultConfig
    /\ hist[o].run = 1
    /\ hist[o].template_list = NoneList
    /\ pc[o] = "done"

\* C25: the command line exits with code 0 if and only if the run succeeded
\* (it returned the PDF's location), and with a non-zero code when the run
\* aborted: missing input, no page rendered, rasterization failed.
C25_ExitCodeTellsSuccess ==
    \A o \in Orchestrators :
        CliRunEnded(o) =>
            (main(hist[o].result) = 0 <=> hist[o].result.kind \in {"path", "url"})

\* The upload stage of o's run has called the upload operation and is over.
UploadCalled(o) ==
    /\ Happened(o, <<"upload", "start">>)
    /\ ~Happened(o, <<"upload", "skip">>)
    /\ pc[o] \in {"finish", "done"}

\* C26: every call of the upload operation returns a result that carries a
\* success flag, holds a public URL and a storage path exactly when success is
\* true and an error detail exactly when success is false; every failure is
\* reported as such a result, the operation never raises.
C26_UploadResultShape ==
    \A o \in Orchestrators :
        UploadCalled(o) =>
            LET result == hist[o].upload_result
            IN  /\ "success" \in DOMAIN result
                /\ result.success <=> {"url", "path"} \subseteq DOMAIN result
                /\ ~result.success <=> "error" \in DOMAIN result

\* Some local PDF is removed in this step.
PdfRemoved == \E p \in PdfPaths : IsFile(pdf[p]) /\ ~IsFile(pdf'[p])

\* C27: a run removes the local PDF only in its upload stage, after its own
\* upload reported success, and only when delete_local_after_upload is set;
\* and when a run returns a local path, the file at that path exists.
C27_LocalPdfOwned ==
    [][\A o \in Orchestrators :
          /\ (pc[o] # pc'[o] /\ PdfRemoved) =>
                 /\ pc[o] = "upload"
                 /\ hist'[o].uploadOK
                 /\ hist'[o].upload_result.success
                 /\ cfg[o].delete_local_after_upload
          /\ (pc[o] = "finish" /\ pc'[o] = "done" /\ hist'[o].result.kind = "path") =>
                 IsFile(pdf'[<<hist'[o].result.where, hist'[o].result.name>>])]_vars

\* C28: when upload is disabled by configuration or the uploader was not
\* initialised, the upload stage makes no call to the object store, leaves the
\* local PDF, the bucket and the recorded remote URL as they are and records
\* no error; the run then returns the local path of its PDF, which exists.
C28_DisabledUploadIsNoOp ==
    [][\A o \in Orchestrators :
          /\ (/\ pc[o] = "upload"
              /\ pc'[o] # "upload"
              /\ (~orch[o].upload_to_supabase \/ ~orch[o].supabase_uploader)) =>
                 /\ pc'[o] = "finish"
                 /\ hist'[o].storeCalls = 0
                 /\ ~hist'[o].upload_result.called
                 /\ pdf' = pdf
                 /\ bucket' = bucket
                 /\ orch'[o].supabase_url = orch[o].supabase_url
                 /\ orch'[o].generated_pdf_path = orch[o].generated_pdf_path
                 /\ hist'[o].errors = hist[o].errors
          /\ (/\ pc[o] = "finish"
              /\ pc'[o] = "done"
              /\ (~orch[o].upload_to_supabase \/ ~orch[o].supabase_uploader)) =>
                 /\ hist'[o].result = LocalPath(OutputPdfPath(o))
                 /\ IsFile(pdf'[OutputPdfPath(o)])]_vars

\* A run whose upload was disabled, and one whose uploader was not
\* initialised, have returned the local path.
C28_Witness ==
    \E o \in Orchestrators :
        /\ pc[o] = "done"
        /\ Happened(o, <<"upload", "skip">>)
        /\ hist[o].result.kind = "path"
        /\ \/ ~cfg[o].upload_to_supabase
           \/ cfg[o].upload_to_supabase /\ ~orch[o].supabase_uploader

\* C29: an upload client or an error sink that is missing (no_module),
\* unconfigured (no_creds) or fails to construct (bad_creds) never aborts a
\* run: run does not raise, a validated run goes on to render, and a run whose
\* rasterization succeeded returns the local path of its PDF.
C29_AbsentCollaboratorsTolerated ==
    \A o \in Orchestrators :
        (env # "ok" /\ hist[o].run > 0 /\ pc[o] = "done") =>
            /\ hist[o].result # Raised
            /\ Happened(o, <<"validate", "ok">>) => Happened(o, <<"render", "start">>)
            /\ Happened(o, <<"rasterize", "ok">>) =>
                   /\ Happened(o, <<"upload", "skip">>)
                   /\ hist[o].result = LocalPath(OutputPdfPath(o))

\* The positions of the page-break markers in a combined document.
Markers(doc) == {i \in DOMAIN doc : doc[i] = PageBreak}

\* C30: the rasterizer is given one combined document: the HTML of the pages
\* this run rendered, in page order, with exactly one page-break marker between
\* two consecutive pages (N pages give N-1 markers, none before the first page
\* and none after the last), and the print call is made once for the document.
C30_CombinedDocument ==
    \A o \in Orchestrators :
        Happened(o, <<"rasterize", "ok">>) =>
            LET doc == hist[o].document
                pages == hist[o].rendered
                N == Len(pages)
            IN  /\ N >= 1
                /\ Cardinality(Markers(doc)) = N - 1
                /\ 1 \notin Markers(doc)
                /\ Len(doc) \notin Markers(doc)
                /\ \A i \in Markers(doc) : i + 1 \notin Markers(doc)
                /\ SelectSeq(doc, LAMBDA e : e # PageBreak) =
                       [i \in 1..N |-> <<pages[i], orch[o].data_file_path>>]
                /\ hist[o].prints = 1

\* A run printed a document of four pages and three markers (one template of
\* the default list did not render).
C30_Witness ==
    \E o \in Orchestrators :
        /\ Happened(o, <<"rasterize", "ok">>)
        /\ hist[o].failed # {}
        /\ Len(hist[o].rendered) = 4
        /\ Len(hist[o].document) = 7

\* C31: the temporary combined-HTML file does not outlive the rasterization
\* attempt: once convert_html_to_pdf has returned, with a PDF or with a
\* failure, the temporary file it created no longer exists.
C31_TempFileRemoved ==
    \A o \in Orchestrators :
        (Happened(o, <<"rasterize", "ok">>) \/ Happened(o, <<"rasterize", "fail">>)) =>
            hist[o].tmp # "exists"

\* C32: the endpoint answers with status success and the artifact's location
\* whenever the workflow returned a location, a local path or a remote URL,
\* and answers 500 only when the workflow returned None or raised.
C32_ResponseFollowsWorkflow ==
    \A o \in Orchestrators :
        pc[o] = "responded" =>
            LET pdf_path == hist[o].result
                response == hist[o].response
            IN  /\ pdf_path.kind \in {"path", "url"} =>
                       /\ response.status_code \div 100 = 2
                       /\ response.pdf_path = pdf_path
                /\ response.status_code = 500 => pdf_path \in {None, Raised}

\* C33: on every exit path of generate_pdf (success, workflow failure,
\* timeout, unexpected exception) the temporary data file written for the
\* request has been removed when the response is given, and two concurrent
\* requests never use the same temporary data file: the file a request writes
\* is not the file of a request still being served.
C33_TempDataFilePrivate ==
    [][\A o \in Orchestrators :
          /\ (pc[o] # "responded" /\ pc'[o] = "responded") =>
                 hist[o].temp_data \notin datafiles'
          /\ (pc[o] = "idle" /\ pc'[o] # "idle") =>
                 hist'[o].temp_data \notin datafiles]_vars

\* The HTML pages and the PDF files a run of o has written that are on disk.
OutputsLeft(o) ==
    {t \in Range(hist[o].rendered) : html[t] # ""}
        \cup {p \in hist[o].written : IsFile(pdf[p])}

\* C34: when a run does not finish within the caller's timeout, the caller
\* treats it as failed, answering 504 and never success, and the outputs of
\* the timed-out run, its generated HTML pages and any PDF it wrote, are
\* discarded.
C34_TimedOutRunDiscarded ==
    \A o \in Orchestrators :
        (pc[o] = "responded" /\ hist[o].result = Cancelled) =>
            /\ hist[o].response = Response(504, None)
            /\ OutputsLeft(o) = {}

\* Some file of the HTML folder is removed in this step.
HtmlRemoved == \E t \in Templates : html[t] # "" /\ html'[t] = ""

\* C35: the HTML cleanup runs only after a successful rasterization: a run
\* deletes a generated HTML file only when its rasterization has succeeded and
\* the cleanup flag is on; when the rasterization fails or the flag is off the
\* run deletes no HTML file.
C35_CleanupOnlyAfterSuccess ==
    [][\A o \in Orchestrators :
          (pc[o] # pc'[o] /\ HtmlRemoved) =>
              /\ cfg[o].cleanup_html
              /\ pc[o] = "aexit"
              /\ <<"rasterize", "ok">> \in Range(hist'[o].events)
              /\ <<"rasterize", "fail">> \notin Range(hist'[o].events)]_vars

\* A run whose rasterization failed, and the pages it rendered are all still
\* in the HTML folder.
C35_Witness ==
    \E o \in Orchestrators :
        /\ Happened(o, <<"rasterize", "fail">>)
        /\ hist[o].pagesRead # <<>>
        /\ \A t \in Range(hist[o].rendered) : html[t] # ""

\* C36: a single run emits at most one ErrorRecord in total, whatever
\* combination of stage failures occurs, and a run that aborts at validation
\* emits none.
C36_AtMostOneRecord ==
    \A o \in Orchestrators :
        /\ Len(hist[o].errors) <= 1
        /\ Happened(o, <<"validate", "fail">>) => hist[o].errors = <<>>

\* A run in which a template failed to render and the upload failed has
\* returned with one record.
C36_Witness ==
    \E o \in Orchestrators :
        /\ pc[o] = "done"
        /\ hist[o].failed # {}
        /\ Happened(o, <<"upload", "fail">>)
        /\ Len(hist[o].errors) = 1

\* The file upload_pdf is given by o's upload stage is missing or is not named
\* '*.pdf'.
NotUploadable(o) ==
    LET pdf_filename == orch[o].generated_pdf_path.name
    IN  \/ ~IsFile(pdf[UploadSource(pdf_filename)])
        \/ ~HasPdfSuffix(pdf_filename)

\* C37: upload_pdf makes no call to the object store when the local file does
\* not exist or its suffix is not '.pdf': it returns a failure result with an
\* error detail and leaves the bucket unchanged.
C37_RejectsWithoutStoreCall ==
    [][\A o \in Orchestrators :
          (/\ pc[o] = "upload"
           /\ pc'[o] # "upload"
           /\ hist'[o].upload_result # [called |-> FALSE]
           /\ NotUploadable(o)) =>
              /\ "success" \in DOMAIN hist'[o].upload_result
              /\ ~hist'[o].upload_result.success
              /\ "error" \in DOMAIN hist'[o].upload_result
              /\ hist'[o].upload_result.error \in {"File not found", "File is not a PDF"}
              /\ hist'[o].storeCalls = 0
              /\ bucket' = bucket]_vars

\* C38: log_error returns True if and only if a row was inserted into the
\* error table: a disabled logger returns False without attempting an insert,
\* a failed insert gives False, and no call raises.
C38_LogErrorReturn ==
    \A o \in Orchestrators :
        LET returns == hist[o].log_returns
            attempts == hist[o].errors
        IN  /\ orch[o].error_logger = "disabled" =>
                (attempts = <<>> /\ \A i \in DOMAIN returns : ~returns[i])
            /\ orch[o].error_logger = "enabled" =>
                /\ Len(returns) = Len(attempts)
                /\ \A i \in DOMAIN returns : returns[i] <=> attempts[i].inserted
            /\ (returns # <<>> /\ pc[o] = "done") => hist[o].result # Raised

\* An enabled logger whose insert failed has returned False, and the run went
\* on to return.
C38_Witness ==
    \E o \in Orchestrators :
        /\ orch[o].error_logger = "enabled"
        /\ pc[o] = "done"
        /\ hist[o].log_returns = <<FALSE>>
        /\ Len(hist[o].errors) = 1
        /\ ~hist[o].errors[1].inserted

====
